---- MODULE Spec2Model ----
(***************************************************************************)
(* Model of backend/scheduler/tasks.py: the periodic-task registry         *)
(* (create_or_update_periodic_task, delete_periodic_task,                  *)
(* get_periodic_task, disable_task, enable_task) and the run entry points  *)
(* (execute_pipeline_task, execute_pipeline_task_v2).                      *)
(*                                                                         *)
(* Every call is a small process: an action per database statement or      *)
(* collaborator call, in program order, driven by the call's pc.           *)
(***************************************************************************)
EXTENDS Integers, Sequences, FiniteSets, TLC

\* ------------------------------------------------------------------ bounds
MaxCalls == 2          \* calls started in one behaviour
NumWorkers == 2        \* worker processes that can hold a call

Workers == 1..NumWorkers

\* ------------------------------------------------------------- value sets
Names == {"p1", "p2"}          \* task names; disable_task(pipeline_id) makes them pipeline ids too
Orgs == {"org1", "org2"}
TaskPaths == {"scheduler.tasks.execute_pipeline_task"}
ArgsSet == { <<"org2", "p1", "Daily Sync">> }
PipelineNames == {"Daily Sync"}
UnusedArgs == { <<"wf1", "", "ex1", FALSE>>, <<"wf2", "", "ex2", TRUE>> }

\* Pipeline.PipelineStatus
PipelineStatus == {"CREATED", "INPROGRESS", "PAUSED", "RESTARTING", "SUCCESS", "FAILURE"}
\* the status of a pipeline that has not run, or whose earlier run has ended
InitialStatus == {"CREATED", "SUCCESS", "FAILURE"}
INPROGRESS == "INPROGRESS"
PAUSED == "PAUSED"
RESTARTING == "RESTARTING"

\* cron strings, character by character
CronDaily == <<"0", " ", "2", " ", "*", " ", "*", " ", "*">>
CronEvery == <<"*", " ", "*", " ", "*", " ", "*", " ", "*">>
CronDailySpaced == <<" ", "0", " ", " ", "2", "\t", "*", " ", "*", " ", "*", " ">>
CronFour == <<"0", " ", "2", " ", "*", " ", "*">>
CronSix == <<"0", " ", "2", " ", "*", " ", "*", " ", "*", " ", "*">>
CronBlank == <<" ", " ">>
CronStrings == {CronDaily, CronEvery, CronDailySpaced, CronFour, CronSix, CronBlank}

\* ------------------------------------------------------------ pure helpers
IsSpace(c) == c \in {" ", "\t", "\n"}

\* str.split() with no separator: runs of whitespace separate, none at the ends
RECURSIVE SplitAt(_, _, _, _)
SplitAt(s, i, cur, acc) ==
    IF i > Len(s)
    THEN IF cur = "" THEN acc ELSE Append(acc, cur)
    ELSE IF IsSpace(s[i])
         THEN SplitAt(s, i + 1, "", IF cur = "" THEN acc ELSE Append(acc, cur))
         ELSE SplitAt(s, i + 1, cur \o s[i], acc)

split(s) == SplitAt(s, 1, "", <<>>)

\* json.dumps of a list of strings and booleans
RECURSIVE JoinJson(_, _)
JoinJson(xs, i) ==
    IF i > Len(xs) THEN ""
    ELSE (IF i = 1 THEN "" ELSE ", ") \o "\"" \o xs[i] \o "\"" \o JoinJson(xs, i + 1)

json_dumps(xs) == "[" \o JoinJson(xs, 1) \o "]"

\* minute, hour, day_of_month, month_of_year, day_of_week = cron_string.split()
UnpackAtLeast(fields) == Len(fields) >= 5
UnpackOk(fields) == Len(fields) = 5

\* the keyword arguments of CrontabSchedule.objects.get_or_create
CrontabKwargsSwapped(fields) ==
    [minute |-> fields[2], hour |-> fields[1], day_of_week |-> fields[5],
     day_of_month |-> fields[3], month_of_year |-> fields[4]]
CrontabKwargs(fields) ==
    [minute |-> fields[1], hour |-> fields[2], day_of_week |-> fields[5],
     day_of_month |-> fields[3], month_of_year |-> fields[4]]

\* ------------------------------------------------------------------- state
VARIABLES
    tasks,                \* PeriodicTask table: name -> row, for the names that have a row
    crontabs,             \* CrontabSchedule table: the rows in creation order, pk = position
    pipelines,            \* Pipeline records: id -> [active, status], for the pipelines that exist
    subscription_loader,  \* load_plugins() at import: truthiness of each plugin entry
    orgContext,           \* UserContext organization identifier bound on each worker
    call,                 \* the call each worker is executing or has last finished
    pre,                  \* tables as they were when each worker's call started
    ncalls                \* calls started so far

vars == <<tasks, crontabs, pipelines, subscription_loader, orgContext, call, pre, ncalls>>

NoOrg == ""
RunOps == {"execute_pipeline_task_v2", "execute_pipeline_task"}
ToggleOps == {"disable_task", "enable_task"}
TogglePcs == {"toggle_get", "toggle_save", "toggle_update"}

IdleCall ==
    [op |-> "none", pc |-> "idle",
     name |-> "", org |-> NoOrg, pipeline_name |-> "", received |-> <<>>,
     cron_string |-> <<>>, task_path |-> "", task_args |-> <<>>, enabled |-> FALSE,
     args_json |-> "", fields |-> <<>>, schedule |-> 0, task |-> <<>>,
     result |-> <<>>, oracle |-> "none", engine |-> "none",
     escaped |-> "none", caught |-> "none", log |-> <<>>, repeat |-> FALSE]

Snapshot == [tasks |-> tasks, crontabs |-> crontabs, pipelines |-> pipelines]

\* the registry of a fresh deployment, or one where the schedule of pipeline p1 has been
\* registered by create_or_update_periodic_task(CronDaily, "p1", ...)
Registered ==
    [tasks |-> ("p1" :> [task |-> "scheduler.tasks.execute_pipeline_task", crontab |-> 1,
                         enabled |-> TRUE, args |-> json_dumps(<<"org1", "p1", "Daily Sync">>)]),
     crontabs |-> <<CrontabKwargs(split(CronDaily))>>]

Init ==
    /\ \E r \in {[tasks |-> <<>>, crontabs |-> <<>>], Registered} :
           tasks = r.tasks /\ crontabs = r.crontabs
    /\ \E a \in BOOLEAN, s \in InitialStatus :
           pipelines = ("p1" :> [active |-> a, status |-> s])
    /\ subscription_loader \in {<<>>, <<FALSE>>, <<TRUE>>}
    /\ orgContext = [w \in Workers |-> NoOrg]
    /\ call = [w \in Workers |-> IdleCall]
    /\ pre = [w \in Workers |-> Snapshot]
    /\ ncalls = 0

Idle(c) == c.pc \in {"idle", "done"}
Free(w) == Idle(call[w]) /\ ncalls < MaxCalls

\* a call starts: the tables are remembered, nothing else changes yet
Started(w) ==
    /\ pre' = [pre EXCEPT ![w] = Snapshot]
    /\ ncalls' = ncalls + 1
    /\ UNCHANGED <<tasks, crontabs, pipelines, subscription_loader, orgContext>>

Logged(c, event) == [c EXCEPT !.log = Append(@, event)]

\* `except Exception` at the end of execute_pipeline_task_v2
ExceptionClasses == {"Exception", "DoesNotExist", "MultipleObjectsReturned", "ValueError",
                     "PipelineNotFound", "PipelineInactive"}
\* a handler for the registry's own error only
CatchesNarrow(e) == e \in {"DoesNotExist"}
Catches(e) == e \in ExceptionClasses

\* where the run goes once the disable attempt is over: `return` (line 111)
AfterDisableFallsThrough == "inprogress"
AfterDisable == "done"

\* the call after exception e is raised where it stands
Raise(c, e) ==
    IF c.op \in RunOps /\ c.pc \in TogglePcs
    THEN \* disable_task inside the run: except Exception -> logger.warning (lines 109-110)
         [Logged(c, "warning") EXCEPT !.pc = AfterDisable, !.caught = e]
    ELSE IF c.op \in RunOps /\ Catches(e)
    THEN [Logged(c, "error") EXCEPT !.pc = "done", !.caught = e]
    ELSE [c EXCEPT !.pc = "done", !.escaped = e]

\* ------------------------------------------------------- Schedule registry
SameUpsert(c, d) ==
    /\ c.op = "create_or_update_periodic_task" /\ d.op = c.op
    /\ c.cron_string = d.cron_string /\ c.name = d.name /\ c.task_path = d.task_path
    /\ c.task_args = d.task_args /\ c.enabled = d.enabled

CallUpsert(w) ==
    /\ Free(w)
    /\ \E cs \in CronStrings, n \in Names, tp \in TaskPaths, ta \in ArgsSet, en \in BOOLEAN :
           LET c == [IdleCall EXCEPT !.op = "create_or_update_periodic_task", !.pc = "parse",
                                     !.cron_string = cs, !.name = n, !.task_path = tp,
                                     !.task_args = ta, !.enabled = en]
           IN call' = [call EXCEPT ![w] =
                  [c EXCEPT !.repeat = call[w].pc = "done" /\ SameUpsert(c, call[w])]]
    /\ Started(w)

\* lines 26-29: json.dumps, then split and unpack
UpsertParse(w) ==
    LET c == call[w]
        fields == split(c.cron_string)
    IN /\ c.pc = "parse"
       /\ call' = [call EXCEPT ![w] =
              IF UnpackOk(fields)
              THEN [c EXCEPT !.args_json = json_dumps(c.task_args), !.fields = fields,
                             !.pc = "crontab_get"]
              ELSE Raise([c EXCEPT !.args_json = json_dumps(c.task_args)], "ValueError")]
       /\ UNCHANGED <<tasks, crontabs, pipelines, subscription_loader, orgContext, pre, ncalls>>

Matching(kwargs) == {i \in 1..Len(crontabs) : crontabs[i] = kwargs}

\* get_or_create creates when its get finds no row
NeedsCreateAlways(matches) == TRUE
NeedsCreate(matches) == matches = {}

\* lines 32-38, the get of get_or_create
UpsertCrontabGet(w) ==
    LET c == call[w]
        m == Matching(CrontabKwargs(c.fields))
    IN /\ c.pc = "crontab_get"
       /\ call' = [call EXCEPT ![w] =
              IF NeedsCreate(m) THEN [c EXCEPT !.pc = "crontab_create"]
              ELSE IF Cardinality(m) = 1
              THEN [c EXCEPT !.schedule = CHOOSE i \in m : TRUE, !.pc = "update_or_create"]
              ELSE Raise(c, "MultipleObjectsReturned")]
       /\ UNCHANGED <<tasks, crontabs, pipelines, subscription_loader, orgContext, pre, ncalls>>

\* lines 32-38, the create of get_or_create
UpsertCrontabCreate(w) ==
    LET c == call[w]
    IN /\ c.pc = "crontab_create"
       /\ crontabs' = Append(crontabs, CrontabKwargs(c.fields))
       /\ call' = [call EXCEPT ![w] = [c EXCEPT !.schedule = Len(crontabs) + 1,
                                                !.pc = "update_or_create"]]
       /\ UNCHANGED <<tasks, pipelines, subscription_loader, orgContext, pre, ncalls>>

\* the defaults of update_or_create
Defaults(c) ==
    [task |-> c.task_path, crontab |-> c.schedule, enabled |-> c.enabled, args |-> c.args_json]

\* update_or_create writes the PeriodicTask row and nothing of the pipeline
PipelinesAfterUpsertCoupled(c) ==
    IF c.name \in DOMAIN pipelines
    THEN [pipelines EXCEPT ![c.name].status = IF c.enabled THEN "RESTARTING" ELSE "PAUSED"]
    ELSE pipelines
PipelinesAfterUpsert(c) == pipelines

\* lines 40-53
UpsertUpdateOrCreate(w) ==
    LET c == call[w]
        created == c.name \notin DOMAIN tasks
    IN /\ c.pc = "update_or_create"
       /\ tasks' = (c.name :> Defaults(c)) @@ tasks
       /\ pipelines' = PipelinesAfterUpsert(c)
       /\ call' = [call EXCEPT ![w] =
              [Logged(c, IF created THEN "Created periodic task" ELSE "Updated periodic task")
                  EXCEPT !.pc = "done"]]
       /\ UNCHANGED <<crontabs, subscription_loader, orgContext, pre, ncalls>>

CallDelete(w) ==
    /\ Free(w)
    /\ \E n \in Names :
           call' = [call EXCEPT ![w] = [IdleCall EXCEPT !.op = "delete_periodic_task", !.pc = "delete_get", !.name = n]]
    /\ Started(w)

\* a delete of the whole table instead of the one row
WithoutAll(f, n) == [k \in {} |-> f[k]]
Without(f, n) == [k \in DOMAIN f \ {n} |-> f[k]]

\* line 139, and line 144 when the row is missing
DeleteGet(w) ==
    LET c == call[w]
    IN /\ c.pc = "delete_get"
       /\ call' = [call EXCEPT ![w] =
              IF c.name \in DOMAIN tasks
              THEN [c EXCEPT !.task = <<tasks[c.name]>>, !.pc = "delete_delete"]
              ELSE [Logged(c, "Periodic task does not exist") EXCEPT !.pc = "done"]]
       /\ UNCHANGED <<tasks, crontabs, pipelines, subscription_loader, orgContext, pre, ncalls>>

\* lines 140-142
DeleteDelete(w) ==
    LET c == call[w]
    IN /\ c.pc = "delete_delete"
       /\ tasks' = Without(tasks, c.name)
       /\ call' = [call EXCEPT ![w] = [Logged(c, "Deleted periodic task") EXCEPT !.pc = "done"]]
       /\ UNCHANGED <<crontabs, pipelines, subscription_loader, orgContext, pre, ncalls>>

CallGet(w) ==
    /\ Free(w)
    /\ \E n \in Names :
           call' = [call EXCEPT ![w] = [IdleCall EXCEPT !.op = "get_periodic_task", !.pc = "get", !.name = n]]
    /\ Started(w)

\* lines 147-151: the row, or None as the empty result
get_periodic_task(task_name) ==
    IF task_name \in DOMAIN tasks THEN <<tasks[task_name]>> ELSE <<>>

GetTask(w) ==
    LET c == call[w]
    IN /\ c.pc = "get"
       /\ call' = [call EXCEPT ![w] = [c EXCEPT !.result = get_periodic_task(c.name),
                                                !.pc = "done"]]
       /\ UNCHANGED <<tasks, crontabs, pipelines, subscription_loader, orgContext, pre, ncalls>>

\* ------------------------------------------------- Status store (external)
\* PipelineProcessor.fetch_pipeline(pipeline_id, check_active): the error it raises, if any
FetchError(pid, check_active) ==
    IF pid \notin DOMAIN pipelines THEN "PipelineNotFound"
    ELSE IF check_active /\ ~pipelines[pid].active THEN "PipelineInactive"
    ELSE "none"

\* PipelineProcessor.update_pipeline(pipeline_id, status[, is_active]): a full overwrite of
\* the status of an existing pipeline; the third positional argument is passed through,
\* its effect lies outside this module
update_pipeline(pid, status, is_active) == [pipelines EXCEPT ![pid].status = status]

\* ------------------------------------------------ disable_task / enable_task
ToggleEnabledSwapped(op) == op # "enable_task"
ToggleEnabled(op) == op = "enable_task"

\* the two statuses taken for one another
ToggleStatusSwapped(op) == IF op = "enable_task" THEN PAUSED ELSE RESTARTING
ToggleStatus(op) == IF op = "enable_task" THEN RESTARTING ELSE PAUSED

CallDisable(w) ==
    /\ Free(w)
    /\ \E n \in Names :
           call' = [call EXCEPT ![w] = [IdleCall EXCEPT !.op = "disable_task", !.pc = "toggle_get", !.name = n]]
    /\ Started(w)

CallEnable(w) ==
    /\ Free(w)
    /\ \E n \in Names :
           call' = [call EXCEPT ![w] = [IdleCall EXCEPT !.op = "enable_task", !.pc = "toggle_get", !.name = n]]
    /\ Started(w)

\* lines 155 and 162
ToggleGet(w, cl, clp) ==
    LET c == Logged(cl[w], "PeriodicTask.get")
    IN /\ cl[w].pc = "toggle_get"
       /\ clp = [cl EXCEPT ![w] =
              IF c.name \in DOMAIN tasks
              THEN [c EXCEPT !.task = <<tasks[c.name]>>, !.pc = "toggle_save"]
              ELSE Raise(c, "DoesNotExist")]
       /\ UNCHANGED <<tasks, crontabs, pipelines, subscription_loader, orgContext, pre, ncalls>>

\* lines 156-157 and 163-164: the loaded row is written back whole
ToggleSave(w, cl, clp) ==
    LET c == Logged(cl[w], "task.save")
        row == [c.task[1] EXCEPT !.enabled = ToggleEnabled(c.op)]
    IN /\ cl[w].pc = "toggle_save"
       /\ tasks' = (c.name :> row) @@ tasks
       /\ clp = [cl EXCEPT ![w] = [c EXCEPT !.task = <<row>>, !.pc = "toggle_update"]]
       /\ UNCHANGED <<crontabs, pipelines, subscription_loader, orgContext, pre, ncalls>>

\* lines 158 and 165
ToggleUpdate(w, cl, clp) ==
    LET c == Logged(cl[w], "update_pipeline " \o ToggleStatus(cl[w].op))
        next == IF c.op \in RunOps THEN AfterDisable ELSE "done"
    IN /\ cl[w].pc = "toggle_update"
       /\ \E fails \in BOOLEAN :
              IF fails \/ c.name \notin DOMAIN pipelines
              THEN /\ clp = [cl EXCEPT ![w] = Raise(c, "Exception")]
                   /\ UNCHANGED pipelines
              ELSE /\ pipelines' = update_pipeline(c.name, ToggleStatus(c.op), ToggleEnabled(c.op))
                   /\ clp = [cl EXCEPT ![w] = [c EXCEPT !.pc = next]]
       /\ UNCHANGED <<tasks, crontabs, subscription_loader, orgContext, pre, ncalls>>

\* ------------------------------------------------------------ Run orchestrator
CallRunV2(w, cl, clp) ==
    /\ Idle(cl[w]) /\ ncalls < MaxCalls
    /\ \E o \in Orgs, p \in Names, pn \in PipelineNames :
           clp = [cl EXCEPT ![w] = [IdleCall EXCEPT !.op = "execute_pipeline_task_v2", !.pc = "set_org",
                                     !.org = o, !.name = p, !.pipeline_name = pn]]
    /\ Started(w)

\* lines 57-71: the legacy signature (workflow_id, org_schema, execution_action,
\* execution_id, pipepline_id, with_logs, name) forwards three of its seven arguments
ForwardWorkflowId(received) ==
    [organization_id |-> received[2], pipeline_id |-> received[1], pipeline_name |-> received[7]]
Forward(received) ==
    [organization_id |-> received[2], pipeline_id |-> received[5], pipeline_name |-> received[7]]

CallRunLegacy(w) ==
    /\ Free(w)
    /\ \E o \in Orgs, p \in Names, pn \in PipelineNames, u \in UnusedArgs :
           LET received == <<u[1], o, u[2], u[3], p, u[4], pn>>
               kwargs == Forward(received)
           IN call' = [call EXCEPT ![w] =
                  [IdleCall EXCEPT !.op = "execute_pipeline_task", !.pc = "set_org",
                                   !.received = received,
                                   !.org = kwargs.organization_id,
                                   !.name = kwargs.pipeline_id,
                                   !.pipeline_name = kwargs.pipeline_name]]
    /\ Started(w)

IsRun(c) == c.op \in RunOps

\* line 89
RunSetOrg(w, cl, clp) ==
    LET c == Logged(cl[w], "set_organization_identifier")
    IN /\ IsRun(c) /\ c.pc = "set_org"
       /\ \E fails \in BOOLEAN :
              IF fails
              THEN /\ clp = [cl EXCEPT ![w] = Raise(c, "Exception")]
                   /\ UNCHANGED orgContext
              ELSE /\ orgContext' = [orgContext EXCEPT ![w] = c.org]
                   /\ clp = [cl EXCEPT ![w] = [c EXCEPT !.pc = "fetch"]]
       /\ UNCHANGED <<tasks, crontabs, pipelines, subscription_loader, pre, ncalls>>

\* check_active=True at line 91
RunCheckActiveOff == FALSE
RunCheckActive == TRUE

\* lines 90-97: fetch the active pipeline, then read its workflow
RunFetch(w, cl, clp) ==
    LET c == Logged(cl[w], "fetch_pipeline")
        err == FetchError(c.name, RunCheckActive)
    IN /\ IsRun(c) /\ c.pc = "fetch"
       /\ \E workflowFails \in BOOLEAN :
              clp = [cl EXCEPT ![w] =
                  IF err # "none" THEN Raise(c, err)
                  ELSE IF workflowFails THEN Raise(c, "Exception")
                  ELSE [c EXCEPT !.pc = "gate"]]
       /\ UNCHANGED <<tasks, crontabs, pipelines, subscription_loader, orgContext, pre, ncalls>>

\* `subscription_loader and subscription_loader[0]`: whether validate_etl_run is reached
GateConsultsAnyPlugin(loader) == loader # <<>>
GateConsults(loader) == loader # <<>> /\ loader[1]

\* lines 98-111
RunGate(w, cl, clp) ==
    LET c == cl[w]
    IN /\ IsRun(c) /\ c.pc = "gate"
       /\ IF GateConsults(subscription_loader)
          THEN \E answer \in {"True", "False", "raise"} :
                  LET d == [Logged(c, "validate_etl_run") EXCEPT !.oracle = answer]
                  IN clp = [cl EXCEPT ![w] =
                         IF answer = "raise" THEN Raise(d, "Exception")
                         ELSE IF answer = "False"
                         THEN [Logged(d, "disable_task") EXCEPT !.pc = "toggle_get"]
                         ELSE [d EXCEPT !.pc = "inprogress"]]
          ELSE clp = [cl EXCEPT ![w] = [c EXCEPT !.pc = "inprogress"]]
       /\ UNCHANGED <<tasks, crontabs, pipelines, subscription_loader, orgContext, pre, ncalls>>

\* line 112
RunInProgress(w, cl, clp) ==
    LET c == Logged(cl[w], "update_pipeline " \o INPROGRESS)
    IN /\ IsRun(c) /\ c.pc = "inprogress"
       /\ \E fails \in BOOLEAN :
              IF fails \/ c.name \notin DOMAIN pipelines
              THEN /\ clp = [cl EXCEPT ![w] = Raise(c, "Exception")]
                   /\ UNCHANGED pipelines
              ELSE /\ pipelines' = update_pipeline(c.name, INPROGRESS, "unset")
                   /\ clp = [cl EXCEPT ![w] = [c EXCEPT !.pc = "engine"]]
       /\ UNCHANGED <<tasks, crontabs, subscription_loader, orgContext, pre, ncalls>>

\* lines 115-120: the engine returns a response or raises; it is opaque
RunEngine(w, cl, clp) ==
    LET c == Logged(cl[w], "complete_execution")
    IN /\ IsRun(c) /\ c.pc = "engine"
       /\ \E raises \in BOOLEAN :
              clp = [cl EXCEPT ![w] =
                  IF raises THEN Raise([c EXCEPT !.engine = "raised"], "Exception")
                  ELSE [c EXCEPT !.engine = "returned", !.pc = "strip"]]
       /\ UNCHANGED <<tasks, crontabs, pipelines, subscription_loader, orgContext, pre, ncalls>>

\* lines 121-129
RunStrip(w, cl, clp) ==
    LET c == Logged(cl[w], "remove_result_metadata_keys")
    IN /\ IsRun(c) /\ c.pc = "strip"
       /\ \E fails \in BOOLEAN :
              clp = [cl EXCEPT ![w] =
                  IF fails THEN Raise(c, "Exception")
                  ELSE [Logged(c, "Execution completed") EXCEPT !.pc = "done"]]
       /\ UNCHANGED <<tasks, crontabs, pipelines, subscription_loader, orgContext, pre, ncalls>>

\* ---------------------------------------------------------- specifications
\* a statement of a run or of disable_task / enable_task, from the call records cl to clp
RunProgress(w, cl, clp) ==
    \/ RunSetOrg(w, cl, clp) \/ RunFetch(w, cl, clp) \/ RunGate(w, cl, clp)
    \/ ToggleGet(w, cl, clp) \/ ToggleSave(w, cl, clp) \/ ToggleUpdate(w, cl, clp)
    \/ RunInProgress(w, cl, clp) \/ RunEngine(w, cl, clp) \/ RunStrip(w, cl, clp)

Step(w) ==
    \/ CallUpsert(w) \/ UpsertParse(w) \/ UpsertCrontabGet(w) \/ UpsertCrontabCreate(w)
    \/ UpsertUpdateOrCreate(w)
    \/ CallDelete(w) \/ DeleteGet(w) \/ DeleteDelete(w)
    \/ CallGet(w) \/ GetTask(w)
    \/ CallDisable(w) \/ CallEnable(w)
    \/ CallRunV2(w, call, call') \/ CallRunLegacy(w)
    \/ RunSetOrg(w, call, call') \/ RunFetch(w, call, call') \/ RunGate(w, call, call')
    \/ ToggleGet(w, call, call') \/ ToggleSave(w, call, call') \/ ToggleUpdate(w, call, call')
    \/ RunInProgress(w, call, call') \/ RunEngine(w, call, call') \/ RunStrip(w, call, call')

\* one worker takes the calls one after another
Next == Step(1)

Spec == Init /\ [][Next]_vars

\* every worker takes calls, and their statements interleave
NextConc == \E w \in Workers : Step(w)

SpecConc == Init /\ [][NextConc]_vars

\* The schedule of one pipeline is switched off and on, and the pipeline is run, by
\* several workers at once: the calls of NextConc that name the pipeline RacePipeline.
RacePipeline == "p1"

RaceDisable(w) ==
    /\ Free(w)
    /\ call' = [call EXCEPT ![w] = [IdleCall EXCEPT !.op = "disable_task", !.pc = "toggle_get",
                                                    !.name = RacePipeline]]
    /\ Started(w)

RaceEnable(w) ==
    /\ Free(w)
    /\ call' = [call EXCEPT ![w] = [IdleCall EXCEPT !.op = "enable_task", !.pc = "toggle_get",
                                                    !.name = RacePipeline]]
    /\ Started(w)

RaceRun(w) ==
    /\ Free(w)
    /\ \E o \in Orgs :
           call' = [call EXCEPT ![w] = [IdleCall EXCEPT !.op = "execute_pipeline_task_v2",
                                                        !.pc = "set_org", !.org = o,
                                                        !.name = RacePipeline,
                                                        !.pipeline_name = "Daily Sync"]]
    /\ Started(w)

RaceStep(w) ==
    \/ RaceDisable(w) \/ RaceEnable(w) \/ RaceRun(w)
    \/ RunSetOrg(w, call, call') \/ RunFetch(w, call, call') \/ RunGate(w, call, call')
    \/ ToggleGet(w, call, call') \/ ToggleSave(w, call, call') \/ ToggleUpdate(w, call, call')
    \/ RunInProgress(w, call, call') \/ RunEngine(w, call, call') \/ RunStrip(w, call, call')

NextRace == \E w \in Workers : RaceStep(w)

\* the schedule of the pipeline is registered and the pipeline is active
InitRace ==
    /\ Init
    /\ tasks = Registered.tasks
    /\ pipelines[RacePipeline].active /\ pipelines[RacePipeline].status = "CREATED"

SpecRace == InitRace /\ [][NextRace]_vars

\* The runs of one worker, each statement of a run taken in the end: every collaborator
\* the run calls returns or raises.
NextRuns ==
    \/ CallRunV2(1, call, call') \/ CallRunLegacy(1)
    \/ RunSetOrg(1, call, call') \/ RunFetch(1, call, call') \/ RunGate(1, call, call')
    \/ ToggleGet(1, call, call') \/ ToggleSave(1, call, call') \/ ToggleUpdate(1, call, call')
    \/ RunInProgress(1, call, call') \/ RunEngine(1, call, call') \/ RunStrip(1, call, call')

SpecRuns == Init /\ [][NextRuns]_vars /\ WF_vars(RunProgress(1, call, call'))

\* ------------------------------------------------------------------ claims
Range(q) == {q[i] : i \in 1..Len(q)}
Finished(c) == c.pc = "done"
StatusOf(pl, pid) == IF pid \in DOMAIN pl THEN pl[pid].status ELSE "absent"
Usable(pl, pid) == pid \in DOMAIN pl /\ pl[pid].active
DisableFailed(c) == "warning" \in Range(c.log)

\* C1: a run (either entry point) never hands an exception to its caller, at any step and
\* whichever of its steps failed.
C1_RunNeverRaises ==
    \A w \in Workers : IsRun(call[w]) => call[w].escaped = "none"

\* a run whose engine call raised has returned, with the error logged
C1_Witness ==
    /\ IsRun(call[1]) /\ Finished(call[1]) /\ call[1].engine = "raised"
    /\ call[1].escaped = "none" /\ "error" \in Range(call[1].log)

\* C2 as stated: whenever the oracle answered false, the finished run has left the entry
\* named by the pipeline disabled and the status PAUSED, and never called the engine.
C2_AsStated ==
    \A w \in Workers :
        LET c == call[w]
        IN (IsRun(c) /\ Finished(c) /\ c.oracle = "False")
           => /\ c.name \in DOMAIN tasks /\ ~tasks[c.name].enabled
              /\ StatusOf(pipelines, c.name) = "PAUSED"
              /\ c.engine = "none"

\* C2 amended: when the oracle answered false the engine is never called and INPROGRESS is
\* never written; if disable_task did not fail, the entry is disabled and the status is
\* PAUSED when the run returns; if no entry is named by the pipeline, nothing is changed;
\* if the status write failed, the entry is disabled and no status is changed.
C2_DeniedRun ==
    \A w \in Workers :
        LET c == call[w]
        IN (IsRun(c) /\ c.oracle = "False")
           => /\ c.engine = "none"
              /\ c.pc \notin {"inprogress", "engine", "strip"}
              /\ (Finished(c) /\ ~DisableFailed(c))
                 => /\ c.name \in DOMAIN tasks /\ ~tasks[c.name].enabled
                    /\ StatusOf(pipelines, c.name) = "PAUSED"
              /\ (Finished(c) /\ c.name \notin DOMAIN pre[w].tasks)
                 => tasks = pre[w].tasks /\ pipelines = pre[w].pipelines
              /\ (Finished(c) /\ DisableFailed(c) /\ c.name \in DOMAIN pre[w].tasks)
                 => /\ tasks = [pre[w].tasks EXCEPT ![c.name].enabled = FALSE]
                    /\ pipelines = pre[w].pipelines

\* a denied run has disabled an entry that was enabled and paused a pipeline that was not
C2_Witness ==
    LET c == call[1]
    IN /\ IsRun(c) /\ Finished(c) /\ c.oracle = "False" /\ ~DisableFailed(c)
       /\ c.name \in DOMAIN pre[1].tasks /\ pre[1].tasks[c.name].enabled
       /\ StatusOf(pre[1].pipelines, c.name) # "PAUSED"
       /\ ~tasks[c.name].enabled /\ StatusOf(pipelines, c.name) = "PAUSED"

\* C3 as stated: in an entitled run the status is INPROGRESS when the engine is invoked,
\* and once the engine has returned or raised the finished run leaves SUCCESS or FAILURE.
C3_AsStated ==
    \A w \in Workers :
        LET c == call[w]
        IN (IsRun(c) /\ c.oracle = "True")
           => /\ c.pc = "engine" => StatusOf(pipelines, c.name) = "INPROGRESS"
              /\ (Finished(c) /\ c.engine # "none")
                 => StatusOf(pipelines, c.name) \in {"SUCCESS", "FAILURE"}

\* C4 as stated: a finished run whose engine call raised leaves the status FAILURE.
C4_AsStated ==
    \A w \in Workers :
        LET c == call[w]
        IN (IsRun(c) /\ Finished(c) /\ c.engine = "raised")
           => StatusOf(pipelines, c.name) = "FAILURE"

C6_UpsertIdempotent ==
    \A w \in Workers :
        LET c == call[w]
        IN (c.op = "create_or_update_periodic_task" /\ c.repeat /\ Finished(c))
           => /\ tasks = pre[w].tasks
              /\ crontabs = pre[w].crontabs
              /\ c.escaped = "none"
                 => /\ c.name \in DOMAIN tasks
                    /\ crontabs[tasks[c.name].crontab] = CrontabKwargs(c.fields)
                    /\ Cardinality({i \in 1..Len(crontabs) :
                                       crontabs[i] = CrontabKwargs(c.fields)}) = 1

\* the same well-formed registration has been made twice in a row
C6_Witness ==
    LET c == call[1]
    IN /\ c.op = "create_or_update_periodic_task" /\ c.repeat /\ Finished(c)
       /\ c.escaped = "none" /\ c.name \in DOMAIN tasks

\* C7: a cron string that does not split into five fields makes the call raise to its
\* caller (ValueError from the unpacking) and never touches either table.
C7_MalformedCron ==
    \A w \in Workers :
        LET c == call[w]
        IN (c.op = "create_or_update_periodic_task" /\ Len(split(c.cron_string)) # 5)
           => /\ tasks = pre[w].tasks
              /\ crontabs = pre[w].crontabs
              /\ c.pc \in {"parse", "done"}
              /\ Finished(c) => c.escaped = "ValueError"

\* a six-field string has been rejected while the name already had an entry
C7_Witness ==
    LET c == call[1]
    IN /\ c.op = "create_or_update_periodic_task" /\ Finished(c)
       /\ Len(split(c.cron_string)) = 6 /\ c.escaped = "ValueError"
       /\ c.name \in DOMAIN tasks

\* C8 as stated: when a run has returned, the worker's organization binding is cleared.
C8_AsStated ==
    \A w \in Workers :
        (IsRun(call[w]) /\ Finished(call[w])) => orgContext[w] = NoOrg

\* C9: with no oracle configured (no plugin, or a falsy first plugin) a run never consults
\* validate_etl_run and never touches the registry; a run that got past the fetch attempts
\* the INPROGRESS write next, and calls the engine next if that write succeeded.
C9_OpenGate ==
    (subscription_loader = <<>> \/ ~subscription_loader[1])
    => \A w \in Workers :
           LET c == call[w]
           IN IsRun(c)
              => /\ c.oracle = "none"
                 /\ {"validate_etl_run", "disable_task"} \cap Range(c.log) = {}
                 /\ c.pc \notin TogglePcs
                 /\ tasks = pre[w].tasks
                 /\ (Finished(c) /\ Len(c.log) >= 3 /\ c.log[3] # "error")
                    => /\ c.log[3] = "update_pipeline INPROGRESS"
                       /\ c.log[4] # "error"
                          => /\ c.log[4] = "complete_execution"
                             /\ StatusOf(pipelines, c.name) = "INPROGRESS"
                             /\ c.engine # "none"

\* a falsy first plugin: the run of a scheduled, enabled pipeline reached the engine
C9_Witness ==
    LET c == call[1]
    IN /\ subscription_loader = <<FALSE>>
       /\ IsRun(c) /\ Finished(c) /\ c.engine = "returned"
       /\ c.name \in DOMAIN tasks /\ tasks[c.name].enabled

\* C10: the run of a pipeline that does not exist or is not active consults no oracle,
\* calls no engine, changes no entry and no status, and returns normally.
C10_NoRunWithoutPipeline ==
    \A w \in Workers :
        LET c == call[w]
        IN (IsRun(c) /\ ~Usable(pre[w].pipelines, c.name))
           => /\ c.oracle = "none" /\ c.engine = "none"
              /\ c.pc \in {"set_org", "fetch", "done"}
              /\ tasks = pre[w].tasks
              /\ pipelines = pre[w].pipelines
              /\ c.escaped = "none"
              /\ Range(c.log) \subseteq {"set_organization_identifier", "fetch_pipeline", "error"}

\* an inactive pipeline with an enabled schedule and an oracle configured: the run ended
\* at the fetch
C10_Witness ==
    LET c == call[1]
    IN /\ IsRun(c) /\ Finished(c) /\ subscription_loader = <<TRUE>>
       /\ c.name \in DOMAIN pipelines /\ ~pipelines[c.name].active
       /\ c.name \in DOMAIN tasks /\ tasks[c.name].enabled
       /\ c.log = <<"set_organization_identifier", "fetch_pipeline", "error">>

\* C11: delete_periodic_task never raises and never touches a crontab row or a pipeline;
\* for a name with no entry the registry is unchanged; for a name with an entry exactly
\* that entry is gone, get_periodic_task of the name finds nothing, and every other entry
\* is as it was.
C11_Delete ==
    \A w \in Workers :
        LET c == call[w]
        IN (c.op = "delete_periodic_task" /\ Finished(c))
           => /\ c.escaped = "none"
              /\ crontabs = pre[w].crontabs /\ pipelines = pre[w].pipelines
              /\ c.name \notin DOMAIN pre[w].tasks => tasks = pre[w].tasks
              /\ c.name \in DOMAIN pre[w].tasks
                 => /\ DOMAIN tasks = DOMAIN pre[w].tasks \ {c.name}
                    /\ \A k \in DOMAIN tasks : tasks[k] = pre[w].tasks[k]
                    /\ get_periodic_task(c.name) = <<>>

\* one of two entries has been deleted and the other one is still there
C11_Witness ==
    LET c == call[1]
    IN /\ c.op = "delete_periodic_task" /\ Finished(c)
       /\ Cardinality(DOMAIN pre[1].tasks) = 2
       /\ Cardinality(DOMAIN tasks) = 1 /\ c.name \notin DOMAIN tasks

\* the five fields of the cron strings that have five, in the order they are written
C12_Expected(cs) ==
    IF cs \in {CronDaily, CronDailySpaced}
    THEN [minute |-> "0", hour |-> "2", day_of_month |-> "*", month_of_year |-> "*",
          day_of_week |-> "*"]
    ELSE [minute |-> "*", hour |-> "*", day_of_month |-> "*", month_of_year |-> "*",
          day_of_week |-> "*"]

\* C12: after a registration that succeeded with enabled left at its default, the entry
\* get_periodic_task returns is enabled, has the task path given, the arguments given (as
\* their JSON text) and the five fields of the cron string in the order minute, hour,
\* day of month, month, day of week; and get_periodic_task never raises, returning the
\* entry of the name, or nothing for a name without one.
C12_UpsertThenGet ==
    \A w \in Workers :
        LET c == call[w]
            r == get_periodic_task(c.name)
        IN /\ (c.op = "create_or_update_periodic_task" /\ Finished(c)
                  /\ c.escaped = "none" /\ c.enabled)
              => /\ Len(r) = 1
                 /\ r[1].enabled
                 /\ r[1].task = c.task_path
                 /\ c.task_args = <<"org2", "p1", "Daily Sync">>
                    => r[1].args = "[\"org2\", \"p1\", \"Daily Sync\"]"
                 /\ r[1].crontab \in 1..Len(crontabs)
                 /\ crontabs[r[1].crontab] = C12_Expected(c.cron_string)
           /\ (c.op = "get_periodic_task" /\ Finished(c))
              => /\ c.escaped = "none"
                 /\ c.result = IF c.name \in DOMAIN pre[w].tasks
                               THEN <<pre[w].tasks[c.name]>> ELSE <<>>

\* an entry that was disabled, with another schedule, has been registered again from a
\* cron string with extra whitespace
C12_Witness ==
    LET c == call[1]
    IN /\ c.op = "create_or_update_periodic_task" /\ Finished(c) /\ c.escaped = "none"
       /\ c.enabled /\ c.cron_string = CronDailySpaced
       /\ c.name \in DOMAIN pre[1].tasks /\ ~pre[1].tasks[c.name].enabled
       /\ pre[1].crontabs[pre[1].tasks[c.name].crontab] # C12_Expected(CronDaily)
       /\ tasks[c.name].enabled

\* C13: when the oracle answered false and the disable attempt failed (no entry named by
\* the pipeline, or a failed status write), the run is over at once: nothing is raised,
\* the engine is not called, INPROGRESS is not written and no status has changed.
C13_BestEffortDisable ==
    \A w \in Workers :
        LET c == call[w]
        IN /\ (IsRun(c) /\ c.oracle = "False" /\ DisableFailed(c))
              => /\ Finished(c) /\ c.escaped = "none" /\ c.engine = "none"
                 /\ "update_pipeline INPROGRESS" \notin Range(c.log)
                 /\ pipelines = pre[w].pipelines
           /\ (IsRun(c) /\ c.oracle = "False" /\ c.name \notin DOMAIN pre[w].tasks
                  /\ c.pc # "toggle_get")
              => DisableFailed(c)

\* a denied run found no entry to disable and ended there
C13_Witness ==
    LET c == call[1]
    IN /\ IsRun(c) /\ Finished(c) /\ c.oracle = "False" /\ DisableFailed(c)
       /\ c.name \notin DOMAIN tasks
       /\ StatusOf(pipelines, c.name) \notin {"INPROGRESS", "PAUSED", "absent"}

\* C16: create_or_update_periodic_task, delete_periodic_task and get_periodic_task never
\* change a pipeline, whatever they do to the registry.
C16_RegistryLeavesStatus ==
    \A w \in Workers :
        call[w].op \in {"create_or_update_periodic_task", "delete_periodic_task",
                        "get_periodic_task"}
        => pipelines = pre[w].pipelines

\* a registration has switched an enabled entry off and the status is still not PAUSED
C16_Witness ==
    LET c == call[1]
    IN /\ c.op = "create_or_update_periodic_task" /\ Finished(c)
       /\ c.name \in DOMAIN pre[1].tasks /\ pre[1].tasks[c.name].enabled
       /\ ~tasks[c.name].enabled
       /\ StatusOf(pipelines, c.name) \notin {"PAUSED", "absent"}

CronTokens == {"0", "2", "*"}

\* C18: every entry of the registry refers to a crontab row, every crontab row has its
\* five fields taken whole from a cron string, and a registration that got past the
\* parsing had a cron string of exactly five fields. (One entry per name is how the table
\* is kept: PeriodicTask is looked up and written by name.)
C18_RegistryWellFormed ==
    /\ \A n \in DOMAIN tasks : tasks[n].crontab \in 1..Len(crontabs)
    /\ \A i \in 1..Len(crontabs) :
           {crontabs[i].minute, crontabs[i].hour, crontabs[i].day_of_month,
            crontabs[i].month_of_year, crontabs[i].day_of_week} \subseteq CronTokens
    /\ \A w \in Workers :
           LET c == call[w]
           IN (c.op = "create_or_update_periodic_task"
                  /\ (c.pc \notin {"parse", "done"} \/ (c.escaped = "none" /\ Finished(c))))
              => Len(split(c.cron_string)) = 5

\* two names are registered on two schedules
C18_Witness ==
    /\ Cardinality(DOMAIN tasks) = 2 /\ Len(crontabs) = 2
    /\ call[1].op = "create_or_update_periodic_task" /\ Finished(call[1])
    /\ tasks["p1"].crontab # tasks["p2"].crontab

\* C14 as stated: once a disable_task and an enable_task of the same entry, the only calls
\* made, have both returned normally, the entry is disabled with status PAUSED or enabled
\* with status RESTARTING.
C14_AsStated ==
    \A v, w \in Workers :
        LET c == call[v]
            d == call[w]
        IN (/\ ncalls = 2
            /\ c.op = "disable_task" /\ d.op = "enable_task" /\ c.name = d.name
            /\ Finished(c) /\ Finished(d) /\ c.escaped = "none" /\ d.escaped = "none")
           => \/ ~tasks[c.name].enabled /\ StatusOf(pipelines, c.name) = "PAUSED"
              \/ tasks[c.name].enabled /\ StatusOf(pipelines, c.name) = "RESTARTING"

\* the status a call writes at the statement where it stands
C15_Written(c) ==
    IF c.pc = "inprogress" THEN "INPROGRESS"
    ELSE IF c.op = "enable_task" THEN "RESTARTING" ELSE "PAUSED"

\* the workers whose status write is made by the step
C15_Writers ==
    {w \in Workers : /\ call[w].pc \in {"toggle_update", "inprogress"}
                     /\ call'[w] # call[w]
                     /\ call'[w].escaped = "none"
                     /\ Len(call'[w].log) = Len(call[w].log) + 1}

\* C15: whatever the interleaving of runs, disable_task and enable_task on one pipeline,
\* the pipeline always has one status of the fixed set, and each step either leaves it
\* alone or is the status write of one call and leaves exactly the status that call
\* writes, whatever was there and whoever else is half-way through: the status is always
\* that of the last write.
C15_LastWriterWins ==
    /\ [](\A p \in DOMAIN pipelines : pipelines[p].status \in PipelineStatus)
    /\ [][IF C15_Writers = {}
          THEN pipelines' = pipelines
          ELSE \E w \in C15_Writers :
                  pipelines' = [pipelines EXCEPT ![call[w].name].status = C15_Written(call[w])]
         ]_vars

\* a run has written INPROGRESS over the PAUSED of a disable_task that another worker
\* was making, while a third call on the pipeline is still under way or over
C15_Witness ==
    \E v, w \in Workers :
        /\ v # w
        /\ IsRun(call[v]) /\ call[v].pc = "engine"
        /\ call[w].op = "disable_task" /\ Finished(call[w]) /\ call[w].escaped = "none"
        /\ pre[v].pipelines = pre[w].pipelines
        /\ ~tasks["p1"].enabled
        /\ StatusOf(pipelines, "p1") = "INPROGRESS"

\* how a run that is over left execute_pipeline_task_v2: by the return after the disable
\* attempt, by the end of the try block, or by the handler of the try block
Last(q) == IF q = <<>> THEN "" ELSE q[Len(q)]
RunDisabledAndStopped(c) ==
    /\ Finished(c) /\ "disable_task" \in Range(c.log)
    /\ Last(c.log) \in {"update_pipeline PAUSED", "warning"}
RunSuccess(c) == Finished(c) /\ Last(c.log) = "Execution completed"
RunFailure(c) == Finished(c) /\ Last(c.log) = "error"

C17_Ended(c) ==
    /\ c.escaped = "none"
    /\ Cardinality({o \in {"DISABLED_AND_STOPPED", "SUCCESS", "FAILURE"} :
                       \/ o = "DISABLED_AND_STOPPED" /\ RunDisabledAndStopped(c)
                       \/ o = "SUCCESS" /\ RunSuccess(c)
                       \/ o = "FAILURE" /\ RunFailure(c)}) = 1
    /\ RunDisabledAndStopped(c) => c.oracle = "False"

\* C17: when every statement of a run is taken in the end, a run that has started comes
\* to its end in exactly one of three ways, the return after the disable attempt, the
\* normal end or the error handler, and the first of them only after the oracle answered
\* false.
C17_RunTerminates ==
    (IsRun(call[1]) /\ call[1].pc = "set_org") ~> (IsRun(call[1]) /\ C17_Ended(call[1]))

\* a denied run is over by the return after disabling the schedule
C17_Witness ==
    /\ IsRun(call[1]) /\ RunDisabledAndStopped(call[1]) /\ C17_Ended(call[1])
    /\ call[1].name \in DOMAIN tasks /\ ~tasks[call[1].name].enabled
    /\ StatusOf(pipelines, call[1].name) = "PAUSED"

\* the call record of execute_pipeline_task_v2 called with organization_id=org_schema,
\* pipeline_id=pipepline_id, pipeline_name=name, at the statement where the legacy call is
AsV2(c) ==
    IF c.op = "execute_pipeline_task"
    THEN [c EXCEPT !.op = "execute_pipeline_task_v2", !.received = <<>>,
                   !.org = c.received[2], !.name = c.received[5],
                   !.pipeline_name = c.received[7]]
    ELSE c
V2View == [w \in Workers |-> AsV2(call[w])]

\* C19: every step of a call of execute_pipeline_task, its start included, is the step
\* execute_pipeline_task_v2 takes in the same place when called with the three forwarded
\* arguments: the same registry, status, organization context, oracle and engine effects,
\* whatever the other four arguments are.
C19_LegacyIsV2 ==
    [][\A w \in Workers :
          (call'[w].op = "execute_pipeline_task" /\ call'[w] # call[w])
          => \/ CallRunV2(w, V2View, V2View')
             \/ RunProgress(w, V2View, V2View')
      ]_vars

\* a legacy call, whose workflow_id and with_logs differ from those of the legacy call
\* before it, has disabled the schedule of the pipeline named by pipepline_id
C19_Witness ==
    LET c == call[1]
    IN /\ c.op = "execute_pipeline_task" /\ Finished(c)
       /\ c.received[1] = "wf2" /\ c.received[6] /\ c.received[5] = "p1"
       /\ c.oracle = "False" /\ ~DisableFailed(c)
       /\ pre[1].tasks["p1"].enabled /\ ~tasks["p1"].enabled
       /\ StatusOf(pipelines, "p1") = "PAUSED"
       /\ orgContext[1] = c.received[2]

====
